---- MODULE Spec2Model ----
(***************************************************************************)
(* Model of the reranker service (src/reranker-service): the module-level  *)
(* construction of the CrossEncoderReranker, the POST /rerank and          *)
(* GET /health handlers running on the asyncio event loop, the warmup      *)
(* task, and the single worker thread of the ThreadPoolExecutor that runs  *)
(* _score_pairs.                                                           *)
(***************************************************************************)
EXTENDS Integers, Sequences, FiniteSets, TLC

\* ---------------------------------------------------------------- bounds
MaxDocs == 3
MaxBatchSize == 2

\* ------------------------------------------------------- program constants
DEFAULT_MAX_RESULTS == 20
MAX_ALLOWED_RESULTS == 100
MIN_ALLOWED_RESULTS == 1

\* ------------------------------------------------------------- input sets
None == "None"
Ids == {"a", "b"}
\* The two contents are the texts of the warmup documents; a client may
\* send the same texts.
Contents == {"def authenticate_user", "class UserAuth"}
Queries == {"", "user authentication"}
Document == [id : Ids, content : Contents]
\* Optional[int]: <<>> is None, <<n>> is the integer n.
MaxResultsValues == {<<>>, <<2>>, <<MAX_ALLOWED_RESULTS>>}

RECURSIVE SeqsUpTo(_, _)
SeqsUpTo(S, n) ==
    IF n = 0 THEN {<<>>}
    ELSE LET shorter == SeqsUpTo(S, n - 1)
         IN  shorter \cup {Append(s, x) : s \in {t \in shorter : Len(t) = n - 1}, x \in S}

RerankRequest == [query : Queries, documents : SeqsUpTo(Document, MaxDocs),
                  max_results : MaxResultsValues]

\* pydantic validation of the request body (422 when it fails).
RerankRequestValid(request) ==
    /\ Len(request.query) >= 1
    /\ Len(request.documents) >= 1
    /\ \/ request.max_results = <<>>
       \/ /\ request.max_results[1] >= MIN_ALLOWED_RESULTS
          /\ request.max_results[1] <= MAX_ALLOWED_RESULTS

Min(a, b) == IF a <= b THEN a ELSE b

\* --------------------------------------------------- the Scoring Function
\* Stand-in for the pretrained model: a deterministic score per pair.  Every
\* pattern of ties and strict orders among the documents of a request
\* arises from the choice of the documents' contents.
Score(pair) == IF pair[2] = "def authenticate_user" THEN 2 ELSE 1

\* model.predict(batch) when it returns: one score per pair, in order.
predict(batch) == [k \in 1..Len(batch) |-> Score(batch[k])]

\* The exceptions model.predict may raise.
PredictErrors == {"ValueError", "RuntimeError"}

\* What model.predict([["test","test"]]) may return to validate_model:
\* "num" is an element that is a Python float or int, "other" one that is not.
ValidateReturns == {<<"num">>, <<"other">>, <<"num", "num">>}

\* An outcome of that call: a returned value, or a raised exception.
PredictOutcomes ==
    {[raised |-> None, value |-> v] : v \in ValidateReturns}
        \cup {[raised |-> e, value |-> <<>>] : e \in PredictErrors}

\* ------------------------------------------------------------------ state
VARIABLES
    env,         \* the process environment: [modelLoads, loopRunning, WARMUP_ON_START]
    BATCH_SIZE,  \* config.BATCH_SIZE
    reranker,    \* app.reranker: "unset" before app.py line 53, then "ok" or None
    warmup,      \* the warmup task
    post,        \* the POST /rerank handler invocation
    health,      \* the GET /health handler invocation
    jobs,        \* per task, the _score_pairs job submitted to the executor
    queue,       \* the executor's work queue
    running      \* the job the executor's single worker thread is running, or None

vars == <<env, BATCH_SIZE, reranker, warmup, post, health, jobs, queue, running>>

Tasks == {"warmup", "post"}

NoJob == [state |-> "none", pairs |-> <<>>, i |-> 0, all_scores |-> <<>>,
          calls |-> <<>>, exc |-> None]
NoRequest == [query |-> "", documents |-> <<>>, max_results |-> <<>>]
IdlePost == [pc |-> "idle", request |-> NoRequest, status |-> 0, body |-> <<>>]
NoOutcome == [raised |-> None, value |-> <<>>]
IdleHealth == [pc |-> "idle", outcome |-> NoOutcome, status |-> None, error |-> None,
               model_valid |-> FALSE]

Init ==
    /\ env \in [modelLoads : BOOLEAN, loopRunning : BOOLEAN, WARMUP_ON_START : BOOLEAN]
    /\ BATCH_SIZE \in 1..MaxBatchSize
    /\ reranker = "unset"
    /\ warmup = [pc |-> "none", log |-> None]
    /\ post = IdlePost
    /\ health = IdleHealth
    /\ jobs = [t \in Tasks |-> NoJob]
    /\ queue = <<>>
    /\ running = None

\* The event loop thread is occupied: it is inside the synchronous
\* validate_model call, or a handler is between its last suspension and its
\* return.  No other coroutine runs until then; the worker thread does.
LoopBlocked == health.pc \in {"validating", "responded"} \/ post.pc = "responded"

\* ------------------------------------------------ CrossEncoderReranker()
\* __init__ (reranker.py 44-60) and its caller (app.py 52-57): the outcome
\* of the try block is "ok" or the exception that is re-raised.
InitOutcome(e) ==
    IF ~e.modelLoads THEN "OSError"
    ELSE IF e.WARMUP_ON_START /\ ~e.loopRunning THEN "RuntimeError"
    ELSE "ok"

Construct ==
    /\ reranker = "unset"
    /\ reranker' = IF InitOutcome(env) = "ok" THEN "ok" ELSE None
    /\ warmup' = IF InitOutcome(env) = "ok" /\ env.WARMUP_ON_START
                 THEN [warmup EXCEPT !.pc = "scheduled"] ELSE warmup
    /\ UNCHANGED <<env, BATCH_SIZE, post, health, jobs, queue, running>>

\* ------------------------------------------------- CrossEncoderReranker
Pairs(query, documents) ==
    [k \in 1..Len(documents) |-> <<query, documents[k].content>>]

\* run_in_executor(self._executor, self._score_pairs, pairs)
Submit(t, pairs) ==
    /\ jobs' = [jobs EXCEPT ![t] = [NoJob EXCEPT !.state = "queued", !.pairs = pairs]]
    /\ queue' = Append(queue, t)

\* scored_docs after the zip of documents and scores (rank still 0).
ScoredDocs(documents, scores) ==
    [k \in 1..Min(Len(documents), Len(scores)) |->
        [id |-> documents[k].id, score |-> scores[k], rank |-> 0]]

\* A descending sort that puts d before the elements that tie with it, as
\* an ascending sort followed by a reversal does.
RECURSIVE InsertBeforeTies(_, _)
InsertBeforeTies(sorted, d) ==
    IF sorted = <<>> THEN <<d>>
    ELSE IF Head(sorted).score > d.score
         THEN <<Head(sorted)>> \o InsertBeforeTies(Tail(sorted), d)
         ELSE <<d>> \o sorted

\* list.sort(key=score, reverse=True): stable, descending.  Insert d after
\* every element whose score is >= d's.
RECURSIVE Insert(_, _)
Insert(sorted, d) ==
    IF sorted = <<>> THEN <<d>>
    ELSE IF Head(sorted).score >= d.score
         THEN <<Head(sorted)>> \o Insert(Tail(sorted), d)
         ELSE <<d>> \o sorted

RECURSIVE SortDescending(_)
SortDescending(docs) ==
    IF docs = <<>> THEN <<>>
    ELSE Insert(SortDescending(SubSeq(docs, 1, Len(docs) - 1)), docs[Len(docs)])

\* The truncation left out: every scored document is returned.
SliceMissing(docs, max_results) == docs

\* scored_docs[:max_results] for max_results >= 1
Slice(docs, max_results) == SubSeq(docs, 1, Min(Len(docs), max_results))

\* The rank taken to be the 0-based position.
AssignRanksFromZero(docs) == [k \in 1..Len(docs) |-> [docs[k] EXCEPT !.rank = k - 1]]

\* enumerate(...): rank = i + 1
AssignRanks(docs) == [k \in 1..Len(docs) |-> [docs[k] EXCEPT !.rank = (k - 1) + 1]]

\* rerank after the await (reranker.py 97-121)
RerankResults(documents, scores, max_results) ==
    AssignRanks(Slice(SortDescending(ScoredDocs(documents, scores)), max_results))

\* The slice written pairs[i:BATCH_SIZE].
BatchFromStart(pairs, i, size) == SubSeq(pairs, i + 1, Min(size, Len(pairs)))

\* pairs[i:i + BATCH_SIZE], i 0-based
Batch(pairs, i, size) == SubSeq(pairs, i + 1, Min(i + size, Len(pairs)))

\* ----------------------------------------------------- the worker thread
WorkerTake ==
    /\ running = None
    /\ queue # <<>>
    /\ running' = Head(queue)
    /\ queue' = Tail(queue)
    /\ jobs' = [jobs EXCEPT ![Head(queue)].state = "running"]
    /\ UNCHANGED <<env, BATCH_SIZE, reranker, warmup, post, health>>

\* self.model.predict(batch) is entered (reranker.py 143-145)
WorkerPredictCall ==
    /\ running # None
    /\ jobs[running].state = "running"
    /\ jobs[running].i < Len(jobs[running].pairs)
    /\ jobs' = [jobs EXCEPT ![running].state = "predicting",
                            ![running].calls =
                                Append(@, Batch(jobs[running].pairs, jobs[running].i, BATCH_SIZE))]
    /\ UNCHANGED <<env, BATCH_SIZE, reranker, warmup, post, health, queue, running>>

\* predict returns; all_scores.extend; next iteration or return all_scores
WorkerPredictReturn ==
    /\ running # None
    /\ jobs[running].state = "predicting"
    /\ LET j == jobs[running]
           batch == j.calls[Len(j.calls)]
           next == j.i + BATCH_SIZE
           finished == next >= Len(j.pairs)
       IN  /\ jobs' = [jobs EXCEPT ![running] =
                        [j EXCEPT !.all_scores = @ \o predict(batch),
                                  !.i = next,
                                  !.state = IF finished THEN "done" ELSE "running"]]
           /\ running' = IF finished THEN None ELSE running
    /\ UNCHANGED <<env, BATCH_SIZE, reranker, warmup, post, health, queue>>

\* predict raises; _score_pairs logs and re-raises (reranker.py 150-152)
WorkerPredictRaise ==
    /\ running # None
    /\ jobs[running].state = "predicting"
    /\ \E e \in PredictErrors :
         jobs' = [jobs EXCEPT ![running].state = "failed", ![running].exc = e]
    /\ running' = None
    /\ UNCHANGED <<env, BATCH_SIZE, reranker, warmup, post, health, queue>>

\* ------------------------------------------------------------ POST /rerank
\* The handler without its except ValueError clause.
ExceptStatusAlways500(exc) == 500

\* The except clauses of the handler (app.py 116-121), in order: the status
\* of the HTTPException the handler raises for an exception of the try block.
ExceptStatus(exc) ==
    IF exc = "ValueError" THEN 400
    ELSE 500   \* except Exception: every other exception, HTTPException included

\* The checks at app.py 92-102: the exception raised, or None.
ValidateRequest(request) ==
    IF request.query = "" THEN "HTTPException"
    ELSE IF request.documents = <<>> THEN "HTTPException"
    ELSE None

\* request.max_results or 20
MaxResultsOrDefault(request) ==
    IF request.max_results = <<>> \/ request.max_results = <<0>>
    THEN DEFAULT_MAX_RESULTS ELSE request.max_results[1]

\* The handler up to its first suspension.  It is modelled on every
\* RerankRequest object, also on one that was built without validation,
\* which is the case the checks at app.py 92-102 are written for.  The
\* handler passes a non-empty document list on, so rerank's early return for
\* an empty one (reranker.py 79-80) is not taken.
RerankHandler ==
    /\ reranker # "unset"
    /\ ~LoopBlocked
    /\ post.pc = "idle"
    /\ \E request \in RerankRequest :
        IF reranker = None
        THEN /\ post' = [IdlePost EXCEPT !.pc = "responded", !.request = request,
                                         !.status = 503]
             /\ UNCHANGED <<jobs, queue>>
        ELSE IF ValidateRequest(request) # None
        THEN /\ post' = [IdlePost EXCEPT !.pc = "responded", !.request = request,
                                         !.status = ExceptStatus(ValidateRequest(request))]
             /\ UNCHANGED <<jobs, queue>>
        ELSE /\ post' = [IdlePost EXCEPT !.pc = "awaiting", !.request = request]
             /\ Submit("post", Pairs(request.query, request.documents))
    /\ UNCHANGED <<env, BATCH_SIZE, reranker, warmup, health, running>>

\* The handler resumes when the executor future is done.
RerankResume ==
    /\ ~LoopBlocked
    /\ post.pc = "awaiting"
    /\ jobs["post"].state \in {"done", "failed"}
    /\ post' = IF jobs["post"].state = "done"
               THEN [post EXCEPT !.pc = "responded", !.status = 200,
                                 !.body = RerankResults(post.request.documents,
                                                        jobs["post"].all_scores,
                                                        MaxResultsOrDefault(post.request))]
               ELSE [post EXCEPT !.pc = "responded",
                                 !.status = ExceptStatus(jobs["post"].exc)]
    /\ UNCHANGED <<env, BATCH_SIZE, reranker, warmup, health, jobs, queue, running>>

\* The handler returns; the request's objects are discarded.
RerankRespond ==
    /\ post.pc = "responded"
    /\ post' = IdlePost
    /\ jobs' = [jobs EXCEPT !["post"] = NoJob]
    /\ UNCHANGED <<env, BATCH_SIZE, reranker, warmup, health, queue, running>>

\* ------------------------------------------------------------------ warmup
WarmupDocs == <<[id |-> "warmup1", content |-> "def authenticate_user"],
                [id |-> "warmup2", content |-> "class UserAuth"]>>

\* The task created in __init__ starts: warmup() calls rerank, which submits.
WarmupStart ==
    /\ ~LoopBlocked
    /\ warmup.pc = "scheduled"
    /\ warmup' = [warmup EXCEPT !.pc = "awaiting"]
    /\ Submit("warmup", Pairs("user authentication", WarmupDocs))
    /\ UNCHANGED <<env, BATCH_SIZE, reranker, post, health, running>>

\* warmup() resumes: logs completion, or catches and logs the failure.
WarmupResume ==
    /\ ~LoopBlocked
    /\ warmup.pc = "awaiting"
    /\ jobs["warmup"].state \in {"done", "failed"}
    /\ warmup' = [pc |-> "done",
                  log |-> IF jobs["warmup"].state = "done"
                          THEN "Warmup complete" ELSE "Warmup failed"]
    /\ jobs' = [jobs EXCEPT !["warmup"] = NoJob]
    /\ UNCHANGED <<env, BATCH_SIZE, reranker, post, health, queue, running>>

\* ------------------------------------------------------------- GET /health
\* validate_model (reranker.py 154-174) for an outcome of model.predict:
\* a returned sequence, or an exception.
validate_model(outcome) ==
    IF outcome.raised # None THEN FALSE
    ELSE Len(outcome.value) = 1 /\ outcome.value[1] = "num"

HealthStatus(model_valid) == IF model_valid THEN "healthy" ELSE "degraded"

\* The handler runs up to the predict call inside validate_model, which
\* executes on the event loop thread.
HealthCall ==
    /\ reranker # "unset"
    /\ ~LoopBlocked
    /\ health.pc = "idle"
    /\ health' = IF reranker = None
                 THEN [IdleHealth EXCEPT !.pc = "responded", !.status = "unhealthy",
                                         !.error = "Reranker not initialized"]
                 ELSE [IdleHealth EXCEPT !.pc = "validating"]
    /\ UNCHANGED <<env, BATCH_SIZE, reranker, warmup, post, jobs, queue, running>>

\* predict returns or raises and validate_model returns a bool: it catches
\* every exception, so the except branch of the handler (app.py 162-171) is
\* not taken.  The handler builds its response.
HealthReturn ==
    /\ health.pc = "validating"
    /\ \E outcome \in PredictOutcomes :
         health' = [health EXCEPT !.pc = "responded", !.outcome = outcome,
                                  !.model_valid = validate_model(outcome),
                                  !.status = HealthStatus(validate_model(outcome))]
    /\ UNCHANGED <<env, BATCH_SIZE, reranker, warmup, post, jobs, queue, running>>

HealthRespond ==
    /\ health.pc = "responded"
    /\ health' = IdleHealth
    /\ UNCHANGED <<env, BATCH_SIZE, reranker, warmup, post, jobs, queue, running>>

\* ------------------------------------------------------------------- spec
Next ==
    \/ Construct
    \/ WorkerTake
    \/ WorkerPredictCall
    \/ WorkerPredictReturn
    \/ WorkerPredictRaise
    \/ RerankHandler
    \/ RerankResume
    \/ RerankRespond
    \/ WarmupStart
    \/ WarmupResume
    \/ HealthCall
    \/ HealthReturn
    \/ HealthRespond

Spec == Init /\ [][Next]_vars

TypeOK ==
    /\ reranker \in {"unset", "ok", None}
    /\ BATCH_SIZE \in 1..MaxBatchSize
    /\ post.pc \in {"idle", "awaiting", "responded"}
    /\ health.pc \in {"idle", "validating", "responded"}
    /\ warmup.pc \in {"none", "scheduled", "awaiting", "done"}
    /\ running \in Tasks \cup {None}

\* ----------------------------------------------------------- properties
\* A POST /rerank response with the result list of a rerank call.
Reranked == post.pc = "responded" /\ post.status = 200

InputIds(request) == {request.documents[k].id : k \in 1..Len(request.documents)}

Ceil(n, d) == (n + d - 1) \div d

\* C1: a rerank call on a non-empty document list returns exactly
\* min(len(documents), max_results) entries; it is never padded.
C1_OutputLength ==
    Reranked =>
        /\ Len(post.request.documents) >= 1
        /\ Len(post.body) = Min(Len(post.request.documents), MaxResultsOrDefault(post.request))
        /\ Len(post.body) <= Len(post.request.documents)

C1_Witness ==
    /\ Reranked
    /\ Len(post.request.documents) = 3
    /\ post.request.max_results = <<MAX_ALLOWED_RESULTS>>
    /\ Len(post.body) = 3

\* C2: in every returned list the entry at 0-based position i has rank
\* i + 1, and the scores are non-increasing along the list.
C2_RanksAndOrder ==
    Reranked =>
        /\ \A k \in 1..Len(post.body) : post.body[k].rank = k
        /\ \A k \in 1..(Len(post.body) - 1) : post.body[k].score >= post.body[k + 1].score

\* The sort acted: the first document scored lower than the second.
C2_Witness ==
    /\ Reranked
    /\ Len(post.body) >= 2
    /\ Score(<<post.request.query, post.request.documents[1].content>>)
         < Score(<<post.request.query, post.request.documents[2].content>>)
    /\ post.body[1].score > post.body[2].score

\* C3: for every request the API accepts, every output id is an input id
\* and no id occurs more than once in the output.
C3_IdsOnceEach ==
    (Reranked /\ RerankRequestValid(post.request)) =>
        /\ \A k \in 1..Len(post.body) : post.body[k].id \in InputIds(post.request)
        /\ \A k, l \in 1..Len(post.body) : post.body[k].id = post.body[l].id => k = l

\* The contexts that are executing model.predict.
Predicting ==
    {t \in Tasks : running = t /\ jobs[t].state = "predicting"}
        \cup (IF health.pc = "validating" THEN {"event loop"} ELSE {})

\* C4: at most one invocation of model.predict is executing at any moment.
C4_OnePredictAtATime == Cardinality(Predicting) <= 1

\* C5: with the reranker initialized, a request with an empty query or an
\* empty document list is rejected with status 400 and nothing is scored.
C5_EmptyRejected400 ==
    (/\ post.pc = "responded"
     /\ reranker = "ok"
     /\ (post.request.query = "" \/ post.request.documents = <<>>))
        => (post.status = 400 /\ jobs["post"] = NoJob)

\* The scoring of the POST request raised.
ScoringFailed == post.pc = "responded" /\ jobs["post"].state = "failed"

\* No retry, no partial result: the raising call was the last one, made
\* for the batch after the ones already scored, and no list is returned.
NoRetryNoResult ==
    /\ post.body = <<>>
    /\ Len(jobs["post"].calls) = (jobs["post"].i \div BATCH_SIZE) + 1
    /\ Len(jobs["post"].all_scores) = jobs["post"].i

C7_HealthStatus ==
    health.pc = "responded" =>
        IF reranker = None
        THEN health.status = "unhealthy" /\ health.error # None
        ELSE IF health.outcome.raised # None THEN health.status = "unhealthy"
        ELSE IF health.outcome.value = <<"num">> THEN health.status = "healthy"
        ELSE health.status = "degraded"

\* The warmup failed: when it was scheduled in __init__, or in its scoring.
WarmupFailed ==
    \/ /\ reranker # "unset"
       /\ env.modelLoads /\ env.WARMUP_ON_START /\ ~env.loopRunning
    \/ warmup.log = "Warmup failed"

\* C8: a warmup failure at any step is not fatal: the reranker remains
\* initialized and POST /rerank is not rejected with 503.
C8_WarmupFailureNotFatal ==
    WarmupFailed =>
        /\ reranker = "ok"
        /\ (post.pc = "responded" => post.status # 503)

\* C9: _score_pairs calls predict once per consecutive batch of at most
\* BATCH_SIZE pairs, in input order, and the concatenated scores are those
\* of scoring all pairs in a single call.
C9_BatchedScoring ==
    \A t \in Tasks :
        LET j == jobs[t] IN
        /\ \A k \in 1..Len(j.calls) :
              /\ j.calls[k] = SubSeq(j.pairs, (k - 1) * BATCH_SIZE + 1,
                                     Min(k * BATCH_SIZE, Len(j.pairs)))
              /\ Len(j.calls[k]) \in 1..BATCH_SIZE
        /\ j.state = "done" =>
              /\ Len(j.calls) = Ceil(Len(j.pairs), BATCH_SIZE)
              /\ Len(j.all_scores) = Len(j.pairs)
              /\ \A k \in 1..Len(j.pairs) : j.all_scores[k] = Score(j.pairs[k])

\* Three pairs were scored in a full batch and a short one.
C9_Witness ==
    /\ BATCH_SIZE = 2
    /\ jobs["post"].state = "done"
    /\ Len(jobs["post"].pairs) = 3
    /\ Len(jobs["post"].calls) = 2
    /\ Len(jobs["post"].calls[2]) = 1

\* The order of the input positions by descending score, ties by position.
RankedPositions(documents, query) ==
    LET n == Len(documents)
        s(k) == Score(<<query, documents[k].content>>)
    IN  CHOOSE p \in [1..n -> 1..n] :
            /\ \A a, b \in 1..n : p[a] = p[b] => a = b
            /\ \A a, b \in 1..n :
                  a < b => \/ s(p[a]) > s(p[b])
                           \/ s(p[a]) = s(p[b]) /\ p[a] < p[b]

\* C10: ties are broken by input order, in the order of the output and in
\* what truncation keeps: the output is the first max_results documents in
\* the order by descending score and, among equal scores, input position.
C10_TiesByInputOrder ==
    Reranked =>
        LET p == RankedPositions(post.request.documents, post.request.query) IN
        /\ Len(post.body) <= Len(post.request.documents)
        /\ \A k \in 1..Len(post.body) :
              /\ post.body[k].id = post.request.documents[p[k]].id
              /\ post.body[k].score
                   = Score(<<post.request.query, post.request.documents[p[k]].content>>)

\* Three tied documents, ids a, b, a; truncation to two keeps a then b.
C10_Witness ==
    /\ Reranked
    /\ Len(post.request.documents) = 3
    /\ \A k \in 1..3 : post.request.documents[k].content = post.request.documents[1].content
    /\ post.request.documents[1].id = "a"
    /\ post.request.documents[2].id = "b"
    /\ post.request.max_results = <<2>>
    /\ post.body[1].id = "a" /\ post.body[2].id = "b"
====
